---- MODULE Spec2Model ----
(***************************************************************************)
(* Model of kraken.std.git.gitignore (src/src/kraken/std/git/gitignore.py):*)
(* the GitignoreFile document, its parser, renderer, sorter, hashing and   *)
(* refresh pipeline.  Texts are TLA+ strings, handled character by         *)
(* character as the Python code handles them.                              *)
(***************************************************************************)
EXTENDS Integers, Sequences, FiniteSets, TLC

(***************************************************************************)
(* Module constants of gitignore.py                                        *)
(***************************************************************************)
GENERATED_GUARD_DESCRIPTION ==
    "# -------------------------------------------------------------------------------------------------\n"
    \o "# THIS SECTION WAS AUTOMATICALLY GENERATED BY KRAKEN; DO NOT MODIFY OR YOUR CHANGES WILL BE LOST.\n"
    \o "# If you need to define custom gitignore rules, add them below\n"
    \o "# -------------------------------------------------------------------------------------------------"

GENERATED_GUARD_END == "### END-GENERATED-CONTENT"

\* Python's None (the unset Optional[str] fields); a set value v is <<v>>.
None == <<>>

Some(v) == <<v>>

(***************************************************************************)
(* str primitives                                                          *)
(***************************************************************************)
Char(s, i) == SubSeq(s, i, i)

Min(S) == CHOOSE x \in S : \A y \in S : x <= y

Max(S) == CHOOSE x \in S : \A y \in S : x >= y

\* str.startswith / the tail test of a regex ending in a literal and $
StartsWith(s, p) == Len(s) >= Len(p) /\ SubSeq(s, 1, Len(p)) = p

EndsWith(s, p) == Len(s) >= Len(p) /\ SubSeq(s, Len(s) - Len(p) + 1, Len(s)) = p

\* the characters str.strip()/str.lstrip() remove (ASCII whitespace)
IsSpace(c) == c \in {" ", "\t", "\n", "\r", "\f"}

\* str.lstrip()
lstrip(s) ==
    LET first == CHOOSE i \in 1..(Len(s) + 1) :
                    /\ \A j \in 1..(i - 1) : IsSpace(Char(s, j))
                    /\ i = Len(s) + 1 \/ ~IsSpace(Char(s, i))
    IN  SubSeq(s, first, Len(s))

\* not str.strip(): the string is empty or all whitespace
IsBlankStr(s) == \A i \in 1..Len(s) : IsSpace(Char(s, i))

\* str.replace(old, "") for a one-character old
\* (hits: the positions of old that are still ahead of from)
RECURSIVE RemoveFrom(_, _, _)
RemoveFrom(s, hits, from) ==
    IF hits = {} THEN SubSeq(s, from, Len(s))
    ELSE SubSeq(s, from, Min(hits) - 1) \o RemoveFrom(s, hits \ {Min(hits)}, Min(hits) + 1)

RemoveChar(s, c) == RemoveFrom(s, {i \in 1..Len(s) : Char(s, i) = c}, 1)

\* str.split("\n"): the pieces between newlines (always at least one piece)
\* (nls: the positions of the newlines that are still ahead of from)
RECURSIVE SplitFrom(_, _, _)
SplitFrom(s, nls, from) ==
    IF nls = {} THEN <<SubSeq(s, from, Len(s))>>
    ELSE <<SubSeq(s, from, Min(nls) - 1)>> \o SplitFrom(s, nls \ {Min(nls)}, Min(nls) + 1)

SplitLines(s) == SplitFrom(s, {i \in 1..Len(s) : Char(s, i) = "\n"}, 1)

\* sep.join(parts)
RECURSIVE Join(_, _)
Join(parts, sep) ==
    IF Len(parts) = 0 THEN ""
    ELSE IF Len(parts) = 1 THEN parts[1]
    ELSE parts[1] \o sep \o Join(Tail(parts), sep)

\* Iterating a text file: one line per "\n"-terminated piece, plus a last
\* unterminated piece when it is not empty; each with line.rstrip("\n").
FileLines(text) ==
    LET pieces == SplitLines(text)
    IN  IF pieces[Len(pieces)] = "" THEN SubSeq(pieces, 1, Len(pieces) - 1) ELSE pieces

\* str.format(hash=h) of an Optional[str]: None is written "None"
FormatHash(h) == IF h = None THEN "None" ELSE h[1]

\* GENERATED_GUARD_START_TEMPLATE.format(hash=h)
GENERATED_GUARD_START_TEMPLATE(h) ==
    "### START-GENERATED-CONTENT [HASH: " \o FormatHash(h) \o "]"

\* re.match(GENERATED_GUARD_START_REGEX, line) on a line without "\n":
\* the literal head, any characters (greedy), a closing "]" at the end
GENERATED_GUARD_START_REGEX(line) ==
    /\ StartsWith(line, "### START-GENERATED-CONTENT [HASH: ")
    /\ EndsWith(line, "]")
    /\ Len(line) >= Len("### START-GENERATED-CONTENT [HASH: ") + 1

\* match.group(1) of GENERATED_GUARD_START_REGEX
GuardStartGroup1(line) ==
    SubSeq(line, Len("### START-GENERATED-CONTENT [HASH: ") + 1, Len(line) - 1)

\* Faulty variant of the template: no space after the colon, so that
\* PARAMETER_HASH_REGEX does not recognise the line it writes.
PARAMETER_HASH_TEMPLATE_NoSpace(h) == "### [PARAMETERS_HASH:" \o FormatHash(h) \o "]"

\* PARAMETER_HASH_TEMPLATE.format(hash=h)
PARAMETER_HASH_TEMPLATE(h) == "### [PARAMETERS_HASH: " \o FormatHash(h) \o "]"

\* re.match(PARAMETER_HASH_REGEX, line)
PARAMETER_HASH_REGEX(line) ==
    /\ StartsWith(line, "### [PARAMETERS_HASH: ")
    /\ EndsWith(line, "]")
    /\ Len(line) >= Len("### [PARAMETERS_HASH: ") + 1

\* match.group(1) of PARAMETER_HASH_REGEX
ParameterHashGroup1(line) ==
    SubSeq(line, Len("### [PARAMETERS_HASH: ") + 1, Len(line) - 1)

(***************************************************************************)
(* GitignoreEntry                                                          *)
(***************************************************************************)
GitignoreEntry(type, value) == [type |-> type, value |-> value]

is_comment(e) == e.type = "COMMENT"

is_blank(e) == e.type = "BLANK"

is_path(e) == e.type = "PATH"

\* GitignoreEntry.__str__
EntryStr(e) == IF is_comment(e) THEN "# " \o e.value ELSE e.value

(***************************************************************************)
(* Hashing.  hashlib.sha256(...).hexdigest() is modelled as collision-free: *)
(* the digest of a text is a one-line token that determines the text (each *)
(* line written with its length in front).                                 *)
(***************************************************************************)
RECURSIVE NetLines(_)
NetLines(lines) ==
    IF lines = <<>> THEN ""
    ELSE ToString(Len(lines[1])) \o ":" \o lines[1] \o NetLines(Tail(lines))

hash_content(content) == "sha256;" \o NetLines(SplitLines(content))

hash_parameters(tokens, extra_paths) == hash_content(Join(tokens \o extra_paths, ","))

(***************************************************************************)
(* GitignoreFile: the document as a value                                  *)
(***************************************************************************)
\* GitignoreFile(entries): the class-level defaults for the other fields
GitignoreFile(es) ==
    [entries |-> es, generated_content |-> "",
     generated_content_hash |-> None, parameters_hash |-> None]

\* GitignoreFile.render
render(self) ==
    Join(<<GENERATED_GUARD_START_TEMPLATE(self.generated_content_hash),
           self.generated_content,
           GENERATED_GUARD_END>>, "\n")
    \o "\n"
    \o Join([i \in 1..Len(self.entries) |-> EntryStr(self.entries[i])], "\n")
    \o "\n"

\* GitignoreFile.check_generation_parameters
check_generation_parameters(self, tokens, extra_paths) ==
    self.parameters_hash = Some(hash_parameters(tokens, extra_paths))

\* GitignoreFile.check_generated_content_hash
check_generated_content_hash(self) ==
    self.generated_content_hash = Some(hash_content(self.generated_content))

\* GitignoreFile.refresh_generated_content_hash
refresh_generated_content_hash(self) ==
    [self EXCEPT !.generated_content_hash = Some(hash_content(self.generated_content))]

(***************************************************************************)
(* GitignoreFile.parse                                                     *)
(***************************************************************************)
\* the locals of parse before the first line
ParseStart ==
    [state |-> "USER", generated_content |-> <<>>, gitignore |-> GitignoreFile(<<>>)]

\* Faulty variant of the loop body: the parameters-hash marker is looked
\* for in every line, not only inside the generated section.
ParseLine_MarkerAnywhere(ps, line) ==
    LET seen == IF PARAMETER_HASH_REGEX(line)
                THEN [ps EXCEPT !.gitignore.parameters_hash = Some(ParameterHashGroup1(line))]
                ELSE ps
    IN  IF seen.state = "USER" THEN
            IF GENERATED_GUARD_START_REGEX(line) THEN
                [seen EXCEPT !.gitignore.generated_content_hash = Some(GuardStartGroup1(line)),
                             !.state = "GENERATED"]
            ELSE IF StartsWith(line, "#") THEN
                [seen EXCEPT !.gitignore.entries =
                     Append(@, GitignoreEntry("COMMENT", lstrip(SubSeq(line, 2, Len(line)))))]
            ELSE IF IsBlankStr(line) THEN
                [seen EXCEPT !.gitignore.entries = Append(@, GitignoreEntry("BLANK", ""))]
            ELSE
                [seen EXCEPT !.gitignore.entries = Append(@, GitignoreEntry("PATH", line))]
        ELSE
            IF line = GENERATED_GUARD_END THEN
                [seen EXCEPT !.state = "USER",
                             !.gitignore.generated_content = Join(seen.generated_content, "\n")]
            ELSE [seen EXCEPT !.generated_content = Append(@, line)]

\* Faulty variant of the loop body: only a line starting with "# " is taken
\* as a comment.
ParseLine_CommentNeedsSpace(ps, line) ==
    IF ps.state = "USER" THEN
        IF GENERATED_GUARD_START_REGEX(line) THEN
            [ps EXCEPT !.gitignore.generated_content_hash = Some(GuardStartGroup1(line)),
                       !.state = "GENERATED"]
        ELSE IF StartsWith(line, "# ") THEN
            [ps EXCEPT !.gitignore.entries =
                 Append(@, GitignoreEntry("COMMENT", lstrip(SubSeq(line, 2, Len(line)))))]
        ELSE IF IsBlankStr(line) THEN
            [ps EXCEPT !.gitignore.entries = Append(@, GitignoreEntry("BLANK", ""))]
        ELSE
            [ps EXCEPT !.gitignore.entries = Append(@, GitignoreEntry("PATH", line))]
    ELSE
        IF line = GENERATED_GUARD_END THEN
            [ps EXCEPT !.state = "USER",
                       !.gitignore.generated_content = Join(ps.generated_content, "\n")]
        ELSE IF PARAMETER_HASH_REGEX(line) THEN
            [ps EXCEPT !.generated_content = Append(@, line),
                       !.gitignore.parameters_hash = Some(ParameterHashGroup1(line))]
        ELSE
            [ps EXCEPT !.generated_content = Append(@, line)]

\* Faulty variant of the loop body: a parameters-hash marker is taken only
\* while parameters_hash is still unset.
ParseLine_FirstMarkerWins(ps, line) ==
    IF ps.state = "USER" THEN
        IF GENERATED_GUARD_START_REGEX(line) THEN
            [ps EXCEPT !.gitignore.generated_content_hash = Some(GuardStartGroup1(line)),
                       !.state = "GENERATED"]
        ELSE IF StartsWith(line, "#") THEN
            [ps EXCEPT !.gitignore.entries =
                 Append(@, GitignoreEntry("COMMENT", lstrip(SubSeq(line, 2, Len(line)))))]
        ELSE IF IsBlankStr(line) THEN
            [ps EXCEPT !.gitignore.entries = Append(@, GitignoreEntry("BLANK", ""))]
        ELSE
            [ps EXCEPT !.gitignore.entries = Append(@, GitignoreEntry("PATH", line))]
    ELSE
        IF line = GENERATED_GUARD_END THEN
            [ps EXCEPT !.state = "USER",
                       !.gitignore.generated_content = Join(ps.generated_content, "\n")]
        ELSE IF PARAMETER_HASH_REGEX(line) /\ ps.gitignore.parameters_hash = None THEN
            [ps EXCEPT !.generated_content = Append(@, line),
                       !.gitignore.parameters_hash = Some(ParameterHashGroup1(line))]
        ELSE
            [ps EXCEPT !.generated_content = Append(@, line)]

\* Faulty variant of the loop body: the end guard is accumulated with the
\* lines of the generated section.
ParseLine_EndGuardKept(ps, line) ==
    IF ps.state = "USER" THEN
        IF GENERATED_GUARD_START_REGEX(line) THEN
            [ps EXCEPT !.gitignore.generated_content_hash = Some(GuardStartGroup1(line)),
                       !.state = "GENERATED"]
        ELSE IF StartsWith(line, "#") THEN
            [ps EXCEPT !.gitignore.entries =
                 Append(@, GitignoreEntry("COMMENT", lstrip(SubSeq(line, 2, Len(line)))))]
        ELSE IF IsBlankStr(line) THEN
            [ps EXCEPT !.gitignore.entries = Append(@, GitignoreEntry("BLANK", ""))]
        ELSE
            [ps EXCEPT !.gitignore.entries = Append(@, GitignoreEntry("PATH", line))]
    ELSE
        IF line = GENERATED_GUARD_END THEN
            [ps EXCEPT !.state = "USER",
                       !.generated_content = Append(@, line),
                       !.gitignore.generated_content =
                           Join(Append(ps.generated_content, line), "\n")]
        ELSE IF PARAMETER_HASH_REGEX(line) THEN
            [ps EXCEPT !.generated_content = Append(@, line),
                       !.gitignore.parameters_hash = Some(ParameterHashGroup1(line))]
        ELSE
            [ps EXCEPT !.generated_content = Append(@, line)]

\* one iteration of the loop over the file's lines
ParseLine(ps, line) ==
    IF ps.state = "USER" THEN
        IF GENERATED_GUARD_START_REGEX(line) THEN
            [ps EXCEPT !.gitignore.generated_content_hash = Some(GuardStartGroup1(line)),
                       !.state = "GENERATED"]
        ELSE IF StartsWith(line, "#") THEN
            [ps EXCEPT !.gitignore.entries =
                 Append(@, GitignoreEntry("COMMENT", lstrip(SubSeq(line, 2, Len(line)))))]
        ELSE IF IsBlankStr(line) THEN
            [ps EXCEPT !.gitignore.entries = Append(@, GitignoreEntry("BLANK", ""))]
        ELSE
            [ps EXCEPT !.gitignore.entries = Append(@, GitignoreEntry("PATH", line))]
    ELSE
        IF line = GENERATED_GUARD_END THEN
            [ps EXCEPT !.state = "USER",
                       !.gitignore.generated_content = Join(ps.generated_content, "\n")]
        ELSE IF PARAMETER_HASH_REGEX(line) THEN
            [ps EXCEPT !.generated_content = Append(@, line),
                       !.gitignore.parameters_hash = Some(ParameterHashGroup1(line))]
        ELSE
            [ps EXCEPT !.generated_content = Append(@, line)]

\* the locals of parse after the first k lines
RECURSIVE ParseRun(_, _)
ParseRun(lines, k) ==
    IF k = 0 THEN ParseStart ELSE ParseLine(ParseRun(lines, k - 1), lines[k])

\* Faulty variant of parse: the check after the loop is missing.
parse_NeverRaises(text) ==
    LET lines == FileLines(text)
    IN  [raised |-> FALSE, file |-> ParseRun(lines, Len(lines)).gitignore]

\* parse(text): raised is the GitignoreException "Generated section never closed"
parse(text) ==
    LET lines == FileLines(text)
        final == ParseRun(lines, Len(lines))
    IN  [raised |-> final.state = "GENERATED", file |-> final.gitignore]

(***************************************************************************)
(* Entry edits                                                             *)
(***************************************************************************)
\* list.insert(index, e): a negative index counts from the end, and the
\* position is clamped to 0..len
ListInsert(seq, index, e) ==
    LET n == Len(seq)
        i == IF index < 0 THEN (IF index + n < 0 THEN 0 ELSE index + n)
             ELSE IF index > n THEN n ELSE index
    IN  SubSeq(seq, 1, i) \o <<e>> \o SubSeq(seq, i + 1, n)

\* self.entries.insert(len(self.entries) if index is None else index, entry)
InsertEntry(self, index, e) ==
    [self EXCEPT !.entries =
        ListInsert(@, IF index = None THEN Len(self.entries) ELSE index[1], e)]

add_comment(self, comment, index) == InsertEntry(self, index, GitignoreEntry("COMMENT", comment))

add_blank(self, index) == InsertEntry(self, index, GitignoreEntry("BLANK", ""))

add_path(self, path, index) == InsertEntry(self, index, GitignoreEntry("PATH", path))

\* Faulty variant of the loop: it stops after the first deletion.
RemoveLoop_FirstOnly(es, path, removed) ==
    LET hits == {i \in 1..Len(es) : is_path(es[i]) /\ es[i].value = path}
    IN  IF hits = {} THEN [entries |-> es, removed |-> removed]
        ELSE [entries |-> SubSeq(es, 1, Min(hits) - 1) \o SubSeq(es, Min(hits) + 1, Len(es)),
              removed |-> removed + 1]

\* the while-loop of remove_path: delete the first matching entry until none
\* is left; removed counts the deletions
RECURSIVE RemoveLoop(_, _, _)
RemoveLoop(es, path, removed) ==
    LET hits == {i \in 1..Len(es) : is_path(es[i]) /\ es[i].value = path}
    IN  IF hits = {} THEN [entries |-> es, removed |-> removed]
        ELSE RemoveLoop(SubSeq(es, 1, Min(hits) - 1) \o SubSeq(es, Min(hits) + 1, Len(es)),
                        path, removed + 1)

\* remove_path(path): raised is the ValueError of removed == 0
remove_path(self, path) ==
    LET r == RemoveLoop(self.entries, path, 0)
    IN  [raised |-> r.removed = 0, file |-> [self EXCEPT !.entries = r.entries]]

(***************************************************************************)
(* str.lower and the order of str values (by code point)                   *)
(***************************************************************************)
\* the ASCII characters of the model's texts, in code point order
CodePoints ==
    "\t\n\f\r !\"#$%&'()*+,-./0123456789:;<=>?@ABCDEFGHIJKLMNOPQRSTUVWXYZ[\\]^_abcdefghijklmnopqrstuvwxyz{|}~"

\* the place of each character in that order
OrdOf ==
    [c \in {Char(CodePoints, i) : i \in 1..Len(CodePoints)} |->
        CHOOSE i \in 1..Len(CodePoints) : Char(CodePoints, i) = c]

Ord(c) == OrdOf[c]

UpperCase == "ABCDEFGHIJKLMNOPQRSTUVWXYZ"

LowerCase == "abcdefghijklmnopqrstuvwxyz"

\* the lower-case letter of each upper-case letter
LowerOf ==
    [c \in {Char(UpperCase, i) : i \in 1..Len(UpperCase)} |->
        Char(LowerCase, CHOOSE i \in 1..Len(UpperCase) : Char(UpperCase, i) = c)]

LowerChar(c) == IF c \in DOMAIN LowerOf THEN LowerOf[c] ELSE c

\* str.lower
RECURSIVE LowerFrom(_, _)
LowerFrom(s, i) == IF i > Len(s) THEN "" ELSE LowerChar(Char(s, i)) \o LowerFrom(s, i + 1)

lower(s) == LowerFrom(s, 1)

\* a < b on str
StrLess(a, b) ==
    LET n == IF Len(a) < Len(b) THEN Len(a) ELSE Len(b)
        diff == {i \in 1..n : Char(a, i) # Char(b, i)}
    IN  IF diff = {} THEN Len(a) < Len(b)
        ELSE Ord(Char(a, Min(diff))) < Ord(Char(b, Min(diff)))

\* list.sort(key=...): stable.  Items are [key, val]; x goes after every
\* item already placed whose key is not greater than its own.
SortedInsert(sorted, x) ==
    LET later == {i \in 1..Len(sorted) : StrLess(x.key, sorted[i].key)}
        at == IF later = {} THEN Len(sorted) + 1 ELSE Min(later)
    IN  SubSeq(sorted, 1, at - 1) \o <<x>> \o SubSeq(sorted, at, Len(sorted))

RECURSIVE StableSortRun(_, _)
StableSortRun(items, k) ==
    IF k = 0 THEN <<>> ELSE SortedInsert(StableSortRun(items, k - 1), items[k])

StableSort(items) == StableSortRun(items, Len(items))

(***************************************************************************)
(* GitignoreFile.sort_gitignore                                            *)
(***************************************************************************)
Group(comments, paths) == [comments |-> comments, paths |-> paths]

\* Faulty variant of the grouping loop: a comment opens a new group as soon as
\* the current group holds anything, comments included.
GroupStep_NewGroupPerComment(groups, entry) ==
    LET n == Len(groups)
    IN  IF is_path(entry) THEN
            [groups EXCEPT ![n].paths = Append(@, entry.value)]
        ELSE IF is_comment(entry) THEN
            IF groups[n].paths # <<>> \/ groups[n].comments # <<>>
            THEN Append(groups, Group(<<entry.value>>, <<>>))
            ELSE [groups EXCEPT ![n].comments = Append(@, entry.value)]
        ELSE groups

\* Faulty variant of the grouping loop: the new group is opened empty, without
\* the comment that opens it.
GroupStep_ForgetsOpeningComment(groups, entry) ==
    LET n == Len(groups)
    IN  IF is_path(entry) THEN
            [groups EXCEPT ![n].paths = Append(@, entry.value)]
        ELSE IF is_comment(entry) THEN
            IF groups[n].paths # <<>> THEN Append(groups, Group(<<>>, <<>>))
            ELSE [groups EXCEPT ![n].comments = Append(@, entry.value)]
        ELSE groups

\* one iteration of the grouping loop
GroupStep(groups, entry) ==
    LET n == Len(groups)
    IN  IF is_path(entry) THEN
            [groups EXCEPT ![n].paths = Append(@, entry.value)]
        ELSE IF is_comment(entry) THEN
            IF groups[n].paths # <<>> THEN Append(groups, Group(<<entry.value>>, <<>>))
            ELSE [groups EXCEPT ![n].comments = Append(@, entry.value)]
        ELSE groups

RECURSIVE GroupRun(_, _)
GroupRun(es, k) ==
    IF k = 0 THEN <<Group(<<>>, <<>>)>> ELSE GroupStep(GroupRun(es, k - 1), es[k])

\* groups.sort(key=lambda g: "\n".join(g.comments).lower())
SortGroups(groups) ==
    LET items == [i \in 1..Len(groups) |->
                    [key |-> lower(Join(groups[i].comments, "\n")), val |-> groups[i]]]
        sorted == StableSort(items)
    IN  [i \in 1..Len(sorted) |-> sorted[i].val]

\* Faulty variant: the paths are sorted by their own value, upper case first.
SortPaths_CaseSensitive(paths) ==
    LET items == [i \in 1..Len(paths) |-> [key |-> paths[i], val |-> paths[i]]]
        sorted == StableSort(items)
    IN  [i \in 1..Len(sorted) |-> sorted[i].val]

\* group.paths.sort(key=str.lower)
SortPaths(paths) ==
    LET items == [i \in 1..Len(paths) |-> [key |-> lower(paths[i]), val |-> paths[i]]]
        sorted == StableSort(items)
    IN  [i \in 1..Len(sorted) |-> sorted[i].val]

\* the entries one group adds: its comments, its paths, a blank
EmitGroup(group, sort_paths) ==
    LET paths == IF sort_paths THEN SortPaths(group.paths) ELSE group.paths
    IN  [i \in 1..Len(group.comments) |-> GitignoreEntry("COMMENT", group.comments[i])]
        \o [i \in 1..Len(paths) |-> GitignoreEntry("PATH", paths[i])]
        \o <<GitignoreEntry("BLANK", "")>>

RECURSIVE EmitGroups(_, _)
EmitGroups(groups, sort_paths) ==
    IF Len(groups) = 0 THEN <<>>
    ELSE EmitGroup(groups[1], sort_paths) \o EmitGroups(Tail(groups), sort_paths)

\* the entries after sort_gitignore(sort_paths, sort_groups)
SortedEntries(es, sort_paths, sort_groups) ==
    LET grouped == GroupRun(es, Len(es))
        groups == IF sort_groups THEN SortGroups(grouped) ELSE grouped
        out == <<GitignoreEntry("BLANK", "")>> \o EmitGroups(groups, sort_paths)
    IN  IF Len(out) > 0 /\ is_blank(out[Len(out)]) THEN SubSeq(out, 1, Len(out) - 1) ELSE out

\* Faulty variant: the sorted entries are returned in a new GitignoreFile, as
\* the docstring of sort_gitignore has it, without the generated fields.
sort_gitignore_NewFile(self, sort_paths, sort_groups) ==
    GitignoreFile(SortedEntries(self.entries, sort_paths, sort_groups))

sort_gitignore(self, sort_paths, sort_groups) ==
    [self EXCEPT !.entries = SortedEntries(self.entries, sort_paths, sort_groups)]

(***************************************************************************)
(* GitignoreFile.refresh_generated_content                                 *)
(***************************************************************************)
GITIGNORE_API_URL == "https://www.toptal.com/developers/gitignore/api/"

\* the body assembled from the fetched text
GeneratedBody(parameters_hash, fetched_content, extra_paths) ==
    Join(<<GENERATED_GUARD_DESCRIPTION,
           PARAMETER_HASH_TEMPLATE(parameters_hash),
           "",
           fetched_content,
           "# Extra paths">>
         \o extra_paths
         \o <<"# -------------------------------------------------------------------------------------------------">>,
         "\n")

\* Faulty variant: the call also recomputes generated_content_hash.
refresh_generated_content_AlsoHash(self, tokens, extra_paths, result) ==
    IF result.status_code # 200 THEN [raised |-> TRUE, file |-> self]
    ELSE
        LET fetched_content == RemoveChar(result.text, "\r")
            ph == Some(hash_parameters(tokens, extra_paths))
            body == GeneratedBody(ph, fetched_content, extra_paths)
        IN  [raised |-> FALSE,
             file |-> [self EXCEPT !.parameters_hash = ph,
                                   !.generated_content = body,
                                   !.generated_content_hash = Some(hash_content(body))]]

\* Faulty variant: parameters_hash is stored before the status is checked.
refresh_generated_content_HashFirst(self, tokens, extra_paths, result) ==
    LET ph == Some(hash_parameters(tokens, extra_paths))
    IN  IF result.status_code # 200
        THEN [raised |-> TRUE, file |-> [self EXCEPT !.parameters_hash = ph]]
        ELSE [raised |-> FALSE,
              file |-> [self EXCEPT !.parameters_hash = ph,
                                    !.generated_content =
                                        GeneratedBody(ph, RemoveChar(result.text, "\r"),
                                                      extra_paths)]]

\* result is the provider's answer to the one httpx.get of the call;
\* raised is the GitignoreException of a status other than 200
refresh_generated_content(self, tokens, extra_paths, result) ==
    IF result.status_code # 200 THEN [raised |-> TRUE, file |-> self]
    ELSE
        LET fetched_content == RemoveChar(result.text, "\r")
            ph == Some(hash_parameters(tokens, extra_paths))
        IN  [raised |-> FALSE,
             file |-> [self EXCEPT !.parameters_hash = ph,
                                   !.generated_content =
                                       GeneratedBody(ph, fetched_content, extra_paths)]]

(***************************************************************************)
(* Bounds and inputs                                                       *)
(***************************************************************************)
\* add_* calls are made while the document has fewer entries than this
MaxEntries == 3

\* lines of a text handed to parse
MaxLines == 4

\* tokens and extra paths of one refresh
MaxTokens == 1

MaxExtra == 1

\* refresh_generated_content calls made on one document
MaxRefresh == 1

SeqsUpTo(S, n) == UNION {[1..k -> S] : k \in 0..n}

InputLines ==
    {"", "a", "#B",
     "# ### END-GENERATED-CONTENT",
     "### START-GENERATED-CONTENT [HASH: h]",
     "### END-GENERATED-CONTENT",
     "### [PARAMETERS_HASH: p]",
     "### [PARAMETERS_HASH: q]"}

\* a text file: its lines, with or without a newline after the last one
InputTexts ==
    {Join(ls, "\n") \o end : ls \in SeqsUpTo(InputLines, MaxLines), end \in {"", "\n"}}

CommentValues == {"a", "B"}

PathValues == {"a", "B", "b"}

\* the index argument of add_*: None (append) or a position
IndexValues == {None, Some(0)}

TokenValues == {"Python"}

ExtraPathValues == {"Python", "### END-GENERATED-CONTENT"}

\* what the template provider can answer
ProviderResults ==
    {[status_code |-> 200, text |-> t] :
        t \in {"*.pyc\nIcon\r\r\n", "### [PARAMETERS_HASH: p]\n"}}
    \cup {[status_code |-> 404, text |-> "Not Found"]}

(***************************************************************************)
(* State: one GitignoreFile and the record of the last call on it          *)
(***************************************************************************)
VARIABLES
    entries,                 \* self.entries
    generated_content,       \* self.generated_content
    generated_content_hash,  \* self.generated_content_hash
    parameters_hash,         \* self.parameters_hash
    last,                    \* the last call: its name, arguments, outcome, and the document before it
    hist                     \* what has happened to the document so far

vars == <<entries, generated_content, generated_content_hash, parameters_hash, last, hist>>

self ==
    [entries |-> entries, generated_content |-> generated_content,
     generated_content_hash |-> generated_content_hash, parameters_hash |-> parameters_hash]

\* the document becomes f
Becomes(f) ==
    /\ entries' = f.entries
    /\ generated_content' = f.generated_content
    /\ generated_content_hash' = f.generated_content_hash
    /\ parameters_hash' = f.parameters_hash

\* hist.parsed: the document came out of parse and no add_* call was made since
\* hist.refreshed: the arguments and provider text of the refresh that produced
\*   generated_content, None when it has another origin
\* hist.hashed: refresh_generated_content_hash was called after the last call
\*   that replaced generated_content
\* hist.hashed_content: the generated_content that the last
\*   refresh_generated_content_hash call hashed, None when the hash was never
\*   computed on this document
\* hist.refreshes: the refresh_generated_content calls made so far
Init ==
    /\ entries = GitignoreFile(<<>>).entries
    /\ generated_content = GitignoreFile(<<>>).generated_content
    /\ generated_content_hash = GitignoreFile(<<>>).generated_content_hash
    /\ parameters_hash = GitignoreFile(<<>>).parameters_hash
    /\ last = [op |-> "init", raised |-> FALSE]
    /\ hist = [parsed |-> FALSE, refreshed |-> None, hashed |-> FALSE,
               hashed_content |-> None, refreshes |-> 0]

\* gitignore = GitignoreFile.parse(text)
Parsed(text) ==
    LET r == parse(text)
    IN  /\ last' = [op |-> "parse", raised |-> r.raised, text |-> text, pre |-> self]
        /\ IF r.raised THEN UNCHANGED <<entries, generated_content, generated_content_hash,
                                        parameters_hash, hist>>
           ELSE /\ Becomes(r.file)
                /\ hist' = [hist EXCEPT !.parsed = TRUE, !.refreshed = None, !.hashed = FALSE,
                                    !.hashed_content = None]

\* the document is read from an existing file
ParseInput ==
    /\ last.op = "init"
    /\ \E text \in InputTexts : Parsed(text)

\* the rendered text is read back
ParseRendered ==
    /\ last.op = "render"
    /\ Parsed(last.text)

Render ==
    /\ last' = [op |-> "render", raised |-> FALSE, text |-> render(self), pre |-> self]
    /\ UNCHANGED <<entries, generated_content, generated_content_hash, parameters_hash, hist>>

AddComment ==
    /\ Len(entries) < MaxEntries
    /\ \E c \in CommentValues, i \in IndexValues :
        /\ Becomes(add_comment(self, c, i))
        /\ last' = [op |-> "add_comment", raised |-> FALSE, value |-> c, index |-> i, pre |-> self]
    /\ hist' = [hist EXCEPT !.parsed = FALSE]

AddBlank ==
    /\ Len(entries) < MaxEntries
    /\ \E i \in IndexValues :
        /\ Becomes(add_blank(self, i))
        /\ last' = [op |-> "add_blank", raised |-> FALSE, index |-> i, pre |-> self]
    /\ hist' = [hist EXCEPT !.parsed = FALSE]

AddPath ==
    /\ Len(entries) < MaxEntries
    /\ \E p \in PathValues, i \in IndexValues :
        /\ Becomes(add_path(self, p, i))
        /\ last' = [op |-> "add_path", raised |-> FALSE, value |-> p, index |-> i, pre |-> self]
    /\ hist' = [hist EXCEPT !.parsed = FALSE]

RemovePath ==
    /\ \E p \in PathValues :
        LET r == remove_path(self, p)
        IN  /\ last' = [op |-> "remove_path", raised |-> r.raised, value |-> p, pre |-> self]
            /\ Becomes(r.file)
    /\ UNCHANGED hist

SortGitignore ==
    /\ \E sort_paths \in BOOLEAN, sort_groups \in BOOLEAN :
        /\ Becomes(sort_gitignore(self, sort_paths, sort_groups))
        /\ last' = [op |-> "sort_gitignore", raised |-> FALSE, sort_paths |-> sort_paths,
                    sort_groups |-> sort_groups, pre |-> self]
    /\ UNCHANGED hist

\* requests: the URLs the call fetched
RefreshGeneratedContent ==
    /\ \E tokens \in SeqsUpTo(TokenValues, MaxTokens),
       extra_paths \in SeqsUpTo(ExtraPathValues, MaxExtra),
       result \in ProviderResults :
        LET r == refresh_generated_content(self, tokens, extra_paths, result)
        IN  /\ hist.refreshes < MaxRefresh
            /\ last' = [op |-> "refresh_generated_content", raised |-> r.raised,
                        tokens |-> tokens, extra_paths |-> extra_paths, result |-> result,
                        requests |-> <<GITIGNORE_API_URL \o Join(tokens, ",")>>, pre |-> self]
            /\ Becomes(r.file)
            /\ hist' = IF r.raised THEN [hist EXCEPT !.refreshes = @ + 1]
                       ELSE [hist EXCEPT
                               !.refreshed = Some([tokens |-> tokens, extra_paths |-> extra_paths,
                                                   text |-> result.text]),
                               !.hashed = FALSE,
                               !.refreshes = @ + 1]

RefreshGeneratedContentHash ==
    /\ Becomes(refresh_generated_content_hash(self))
    /\ last' = [op |-> "refresh_generated_content_hash", raised |-> FALSE, pre |-> self]
    /\ hist' = [hist EXCEPT !.hashed = TRUE, !.hashed_content = Some(generated_content)]

\* Every call, in any order
Next ==
    \/ ParseInput
    \/ ParseRendered
    \/ Render
    \/ AddComment
    \/ AddBlank
    \/ AddPath
    \/ RemovePath
    \/ SortGitignore
    \/ RefreshGeneratedContent
    \/ RefreshGeneratedContentHash

Spec == Init /\ [][Next]_vars

(***************************************************************************)
(* Spec is too large to enumerate at once; its behaviours are explored in   *)
(* four parts, each a specification whose behaviours are behaviours of     *)
(* Spec.                                                                    *)
(***************************************************************************)
\* A document read from a file, written and read back
NextParse ==
    \/ ParseInput
    \/ Render
    \/ ParseRendered

SpecParse == Init /\ [][NextParse]_vars

\* A document built and edited entry by entry, written and read back
NextEdit ==
    \/ AddComment
    \/ AddBlank
    \/ AddPath
    \/ RemovePath
    \/ SortGitignore
    \/ Render
    \/ ParseRendered

SpecEdit == Init /\ [][NextEdit]_vars

\* The guarded section regenerated, written and read back
NextRefresh ==
    \/ RefreshGeneratedContent
    \/ RefreshGeneratedContentHash
    \/ Render
    \/ ParseRendered

SpecRefresh == Init /\ [][NextRefresh]_vars

\* The guarded section regenerated and hashed, and the user section edited
NextHashed ==
    \/ RefreshGeneratedContent
    \/ RefreshGeneratedContentHash
    \/ AddComment
    \/ AddBlank
    \/ AddPath
    \/ RemovePath
    \/ SortGitignore
    \/ Render

SpecHashed == Init /\ [][NextHashed]_vars

(***************************************************************************)
(* Properties                                                              *)
(***************************************************************************)
\* the lines of a text
LineSet(text) == LET lines == SplitLines(text) IN {lines[i] : i \in 1..Len(lines)}

\* an entry the parser itself can produce
WellFormedEntry(e) ==
    \/ is_comment(e) /\ "\n" \notin {Char(e.value, i) : i \in 1..Len(e.value)}
                     /\ lstrip(e.value) = e.value
    \/ is_blank(e) /\ e.value = ""
    \/ is_path(e) /\ "\n" \notin {Char(e.value, i) : i \in 1..Len(e.value)}
                  /\ ~IsBlankStr(e.value)
                  /\ ~StartsWith(e.value, "#")

WellFormedDocument ==
    /\ \A i \in 1..Len(entries) : WellFormedEntry(entries[i])
    /\ GENERATED_GUARD_END \notin LineSet(generated_content)

\* C1: rendering a document of parser-producible entries, whose generated
\* content holds no end-guard line, and parsing the text gives the same
\* entries back -- also when the document has no entries.
C1_RoundTripEntries ==
    WellFormedDocument =>
        /\ ~parse(render(self)).raised
        /\ parse(render(self)).file.entries = entries

\* The same round trip, for documents with at least one entry.
RoundTripEntriesNonEmpty ==
    (WellFormedDocument /\ entries # <<>>) =>
        /\ ~parse(render(self)).raised
        /\ parse(render(self)).file.entries = entries

\* C2: after sort_gitignore(sort_paths, sort_groups), a second call with the
\* same flags leaves the entries as the first call left them, for every
\* combination of the flags.
C2_SortIdempotent ==
    last.op = "sort_gitignore" =>
        sort_gitignore(self, last.sort_paths, last.sort_groups).entries = entries

\* C3: right after a successful refresh_generated_content(tokens, extra_paths),
\* check_generation_parameters is true of (tokens, extra_paths) and false of
\* every other pair of arguments.
C3_ParametersCheck ==
    (last.op = "refresh_generated_content" /\ ~last.raised) =>
        /\ check_generation_parameters(self, last.tokens, last.extra_paths)
        /\ \A t \in SeqsUpTo(TokenValues \cup ExtraPathValues, MaxTokens + MaxExtra),
              e \in SeqsUpTo(TokenValues \cup ExtraPathValues, MaxTokens + MaxExtra) :
                <<t, e>> # <<last.tokens, last.extra_paths>>
                    => ~check_generation_parameters(self, t, e)

\* A refresh_generated_content call and then a refresh_generated_content_hash
\* call produced the generated fields of the document.
RefreshedAndHashed == hist.refreshed # None /\ hist.hashed

\* the generated fields survive render and parse
GeneratedFieldsRoundTrip ==
    LET r == parse(render(self))
    IN  /\ ~r.raised
        /\ r.file.generated_content = generated_content
        /\ r.file.generated_content_hash = generated_content_hash
        /\ r.file.parameters_hash = parameters_hash

NoMarkerLine(texts) ==
    \A i \in 1..Len(texts) : \A line \in LineSet(texts[i]) :
        line # GENERATED_GUARD_END /\ ~PARAMETER_HASH_REGEX(line)

C5_RefreshLeavesContentHash ==
    (last.op = "refresh_generated_content" /\ ~last.raised) =>
        /\ generated_content_hash = last.pre.generated_content_hash
        /\ entries = last.pre.entries
        /\ parameters_hash # None
        /\ PARAMETER_HASH_TEMPLATE(parameters_hash) \in LineSet(generated_content)
        /\ check_generation_parameters(self, last.tokens, last.extra_paths)
        /\ (hist.hashed_content # None /\ generated_content # hist.hashed_content[1])
              => ~check_generated_content_hash(self)
        /\ generated_content_hash = None => ~check_generated_content_hash(self)

C5_Witness ==
    /\ last.op = "refresh_generated_content"
    /\ ~last.raised
    /\ hist.hashed_content # None
    /\ generated_content # hist.hashed_content[1]
    /\ check_generated_content_hash(last.pre)
    /\ last.extra_paths # <<>>

\* C6: remove_path(v) with at least one Path entry of value v removes every
\* such entry and nothing else, the other entries (Comment entries of value v
\* included) keeping their order, and a repeated remove_path(v) then raises;
\* with no such entry it raises and leaves the entries unchanged.
C6_RemovePath ==
    last.op = "remove_path" =>
        LET before == last.pre.entries
            Other(e) == ~(is_path(e) /\ e.value = last.value)
            again == remove_path(self, last.value)
        IN  /\ last.raised <=> (\A i \in 1..Len(before) : Other(before[i]))
            /\ entries = SelectSeq(before, Other)
            /\ last.raised => entries = before
            /\ again.raised
            /\ again.file.entries = entries
            /\ generated_content = last.pre.generated_content
            /\ generated_content_hash = last.pre.generated_content_hash
            /\ parameters_hash = last.pre.parameters_hash

C6_Witness ==
    /\ last.op = "remove_path"
    /\ ~last.raised
    /\ Len(last.pre.entries) = Len(entries) + 2
    /\ \E i \in 1..Len(entries) : is_comment(entries[i]) /\ entries[i].value = last.value

\* C7: parse raises "Generated section never closed" exactly when the input
\* ends in GENERATED state: a line matching the start guard comes after the
\* last line equal to the end guard (or there is no end-guard line at all).
C7_ParseRaises ==
    last.op = "parse" =>
        LET lines == FileLines(last.text)
            ends == {i \in 1..Len(lines) : lines[i] = GENERATED_GUARD_END}
            lastEnd == IF ends = {} THEN 0 ELSE Max(ends)
        IN  last.raised <=>
                \E i \in (lastEnd + 1)..Len(lines) : GENERATED_GUARD_START_REGEX(lines[i])

C7_Witness ==
    /\ last.op = "parse"
    /\ last.raised
    /\ GENERATED_GUARD_END \in LineSet(last.text)

\* a parse that closed its generated section
C7_WitnessClosed ==
    /\ last.op = "parse"
    /\ ~last.raised
    /\ generated_content_hash # None

\* C8: when the provider answers with a status other than 200,
\* refresh_generated_content raises after its one request and the document
\* is exactly as before the call.
C8_ProviderError ==
    (last.op = "refresh_generated_content" /\ last.result.status_code # 200) =>
        /\ last.raised
        /\ self = last.pre
        /\ Len(last.requests) = 1

C8_Witness ==
    /\ last.op = "refresh_generated_content"
    /\ last.raised
    /\ generated_content_hash # None
    /\ last.tokens # <<>>

\* what parse makes of one line of the user section
UserEntry(line) ==
    IF StartsWith(line, "#") THEN GitignoreEntry("COMMENT", lstrip(SubSeq(line, 2, Len(line))))
    ELSE IF IsBlankStr(line) THEN GitignoreEntry("BLANK", "")
    ELSE GitignoreEntry("PATH", line)

\* C9: when no line of the input matches the start guard, parse returns a
\* document with one entry per line, in order, an empty generated_content
\* and both hashes unset -- also when a line matches the parameters-hash
\* marker or is the end guard.
C9_NoStartGuard ==
    LET lines == FileLines(last.text)
    IN  (last.op = "parse" /\ \A i \in 1..Len(lines) : ~GENERATED_GUARD_START_REGEX(lines[i])) =>
            /\ ~last.raised
            /\ Len(entries) = Len(lines)
            /\ \A i \in 1..Len(lines) : entries[i] = UserEntry(lines[i])
            /\ generated_content = ""
            /\ generated_content_hash = None
            /\ parameters_hash = None

C9_Witness ==
    /\ last.op = "parse"
    /\ Len(entries) = MaxLines
    /\ \E line \in LineSet(last.text) : PARAMETER_HASH_REGEX(line)
    /\ GENERATED_GUARD_END \in LineSet(last.text)
    /\ generated_content_hash = None

IsGuardMarker(s) == s = GENERATED_GUARD_END \/ GENERATED_GUARD_START_REGEX(s)

\* C10 as stated: in a document that parse produced, also after remove_path
\* and sort_gitignore calls, no entry's value is the end-guard marker or
\* matches the start-guard pattern.
C10_NoGuardValue ==
    hist.parsed => \A i \in 1..Len(entries) : ~IsGuardMarker(entries[i].value)

\* C10 amended: in such a document no Path or Blank entry has a value that is
\* the end-guard marker or matches the start-guard pattern, and no entry,
\* Comment included, is rendered as such a line; the value of a Comment can
\* be the marker's text.
C10_NoGuardEntry ==
    hist.parsed =>
        LET NoGuard(es) ==
                \A i \in 1..Len(es) :
                    /\ ~is_comment(es[i]) => ~IsGuardMarker(es[i].value)
                    /\ ~IsGuardMarker(EntryStr(es[i]))
        IN  /\ NoGuard(entries)
            /\ \A p \in PathValues : NoGuard(remove_path(self, p).file.entries)
            /\ \A sort_paths \in BOOLEAN, sort_groups \in BOOLEAN :
                  NoGuard(sort_gitignore(self, sort_paths, sort_groups).entries)

C10_Witness ==
    /\ hist.parsed
    /\ last.op = "parse"
    /\ ~last.raised
    /\ generated_content_hash # None
    /\ \E i \in 1..Len(entries) : is_comment(entries[i]) /\ IsGuardMarker(entries[i].value)

(***************************************************************************)
(* Properties of sort_gitignore                                            *)
(***************************************************************************)
\* the entries of es that are not Blank, in order
NonBlanks(es) == SelectSeq(es, LAMBDA e : ~is_blank(e))

\* the values of the maximal runs of adjacent Comment entries among the first
\* k entries of es, in order
RECURSIVE CommentRunsFrom(_, _)
CommentRunsFrom(es, k) ==
    IF k = 0 THEN <<>>
    ELSE LET r == CommentRunsFrom(es, k - 1)
         IN  IF ~is_comment(es[k]) THEN r
             ELSE IF k > 1 /\ is_comment(es[k - 1])
                  THEN [r EXCEPT ![Len(r)] = Append(@, es[k].value)]
                  ELSE Append(r, <<es[k].value>>)

CommentRuns(es) == CommentRunsFrom(es, Len(es))

\* how often x occurs in seq
Count(seq, x) == Cardinality({i \in 1..Len(seq) : seq[i] = x})

\* a and b hold the same items the same number of times
SameItems(a, b) ==
    /\ Len(a) = Len(b)
    /\ \A i \in 1..Len(a) : Count(a, a[i]) = Count(b, a[i])

\* C11: sort_gitignore keeps together the Comment entries that no Path entry
\* separates in the input (Blank entries ignored): the runs of adjacent
\* Comment entries of the output are those runs, each in its original order,
\* for both values of sort_groups (in input order when sort_groups is off);
\* and the first Comment of every run of the output, so every Comment that
\* follows a Path of the current group, is preceded by exactly one Blank.
C11_CommentGroups ==
    last.op = "sort_gitignore" =>
        LET inRuns == CommentRuns(NonBlanks(last.pre.entries))
            outRuns == CommentRuns(entries)
        IN  /\ SameItems(inRuns, outRuns)
            /\ ~last.sort_groups => outRuns = inRuns
            /\ \A i \in 1..Len(entries) :
                  (is_comment(entries[i]) /\ (i = 1 \/ ~is_comment(entries[i - 1]))) =>
                      /\ i > 1
                      /\ is_blank(entries[i - 1])
                      /\ i > 2 => ~is_blank(entries[i - 2])

\* a Path, then two different Comments: the first Comment opens a group and
\* the second joins it
C11_Witness ==
    /\ last.op = "sort_gitignore"
    /\ last.sort_groups
    /\ Len(last.pre.entries) = 3
    /\ is_path(last.pre.entries[1])
    /\ is_comment(last.pre.entries[2])
    /\ is_comment(last.pre.entries[3])
    /\ last.pre.entries[2].value # last.pre.entries[3].value
    /\ Len(entries) = 5

\* the layout of Blank entries the sorter aims at: one Blank first, no two
\* adjacent Blanks, no Blank last
BlankLayout(es) ==
    /\ Len(es) >= 1
    /\ is_blank(es[1])
    /\ Len(es) >= 2 => ~is_blank(es[2])
    /\ \A i \in 1..(Len(es) - 1) : ~(is_blank(es[i]) /\ is_blank(es[i + 1]))
    /\ ~is_blank(es[Len(es)])

\* C12: after sort_gitignore on any document, with any flags, the entries
\* start with exactly one Blank, hold no two adjacent Blank entries, and do
\* not end with a Blank.
C12_BlankLayout ==
    last.op = "sort_gitignore" => BlankLayout(entries)

\* The same layout, after sort_gitignore on a document that holds at least one
\* Comment or Path entry.
BlankLayoutOfContent ==
    (last.op = "sort_gitignore" /\ NonBlanks(last.pre.entries) # <<>>) => BlankLayout(entries)

\* Without a Comment or Path entry the sorted document is a single Blank.
LoneBlankOfNoContent ==
    (last.op = "sort_gitignore" /\ NonBlanks(last.pre.entries) = <<>>) =>
        entries = <<GitignoreEntry("BLANK", "")>>

\* the values of the maximal runs of adjacent Path entries among the first k
\* entries of es, in order
RECURSIVE PathRunsFrom(_, _)
PathRunsFrom(es, k) ==
    IF k = 0 THEN <<>>
    ELSE LET r == PathRunsFrom(es, k - 1)
         IN  IF ~is_path(es[k]) THEN r
             ELSE IF k > 1 /\ is_path(es[k - 1])
                  THEN [r EXCEPT ![Len(r)] = Append(@, es[k].value)]
                  ELSE Append(r, <<es[k].value>>)

PathRuns(es) == PathRunsFrom(es, Len(es))

\* a <= b, case-insensitively
LessEqNoCase(a, b) == ~StrLess(lower(b), lower(a))

\* the items of seq that are equal to v case-insensitively, in order
SameNoCase(seq, v) == SelectSeq(seq, LAMBDA x : lower(x) = lower(v))

\* sorted is seq sorted case-insensitively and stably
StablySortedNoCase(seq, sorted) ==
    /\ SameItems(seq, sorted)
    /\ \A i \in 1..(Len(sorted) - 1) : LessEqNoCase(sorted[i], sorted[i + 1])
    /\ \A i \in 1..Len(seq) : SameNoCase(sorted, seq[i]) = SameNoCase(seq, seq[i])

\* C13: after sort_gitignore(sort_paths=True, sort_groups=False) the groups
\* stand in the order of their leading comments in the input, no Comment of a
\* group follows one of its Paths, and the Paths of each group are those of
\* the input group in non-decreasing case-insensitive order, paths that are
\* equal case-insensitively keeping their input order.
C13_SortedPaths ==
    (last.op = "sort_gitignore" /\ last.sort_paths /\ ~last.sort_groups) =>
        LET inPaths == PathRuns(NonBlanks(last.pre.entries))
            outPaths == PathRuns(entries)
        IN  /\ CommentRuns(entries) = CommentRuns(NonBlanks(last.pre.entries))
            /\ \A i \in 1..(Len(entries) - 1) :
                  ~(is_path(entries[i]) /\ is_comment(entries[i + 1]))
            /\ Len(outPaths) = Len(inPaths)
            /\ \A g \in 1..Len(inPaths) : StablySortedNoCase(inPaths[g], outPaths[g])
            /\ [i \in 1..Len(NonBlanks(entries)) |-> NonBlanks(entries)[i].type]
                  = [i \in 1..Len(NonBlanks(last.pre.entries)) |->
                        NonBlanks(last.pre.entries)[i].type]

\* "b" and "B" in that order, then "a": the sorted group is "a", "b", "B"
C13_Witness ==
    /\ last.op = "sort_gitignore"
    /\ last.sort_paths
    /\ ~last.sort_groups
    /\ PathRuns(last.pre.entries) = << <<"b", "B", "a">> >>
    /\ PathRuns(entries) = << <<"a", "b", "B">> >>

\* the values of the Path entries of es, in order
PathValuesOf(es) ==
    LET ps == SelectSeq(es, is_path) IN [i \in 1..Len(ps) |-> ps[i].value]

\* the values of the Comment entries of es, in order
CommentValuesOf(es) ==
    LET cs == SelectSeq(es, is_comment) IN [i \in 1..Len(cs) |-> cs[i].value]

\* C15: sort_gitignore, with any flags, neither loses nor duplicates nor
\* invents user content: the Path values and the Comment values after the
\* call are those before the call, each as often as before.
C15_SortKeepsContent ==
    last.op = "sort_gitignore" =>
        /\ SameItems(PathValuesOf(last.pre.entries), PathValuesOf(entries))
        /\ SameItems(CommentValuesOf(last.pre.entries), CommentValuesOf(entries))

\* a sort that moved content: both flags on, Comments and Paths present, and
\* the non-Blank entries in another order than before
C15_Witness ==
    /\ last.op = "sort_gitignore"
    /\ last.sort_paths
    /\ last.sort_groups
    /\ PathValuesOf(last.pre.entries) # <<>>
    /\ CommentValuesOf(last.pre.entries) # <<>>
    /\ NonBlanks(entries) # NonBlanks(last.pre.entries)

(***************************************************************************)
(* Properties of the content hash across edits                             *)
(***************************************************************************)
\* the calls that edit or write the user section
UserSectionOps ==
    {"add_comment", "add_blank", "add_path", "remove_path", "sort_gitignore", "render"}

\* the generated fields of a document
GeneratedFields(f) == <<f.generated_content, f.generated_content_hash, f.parameters_hash>>

\* C14: a refresh_generated_content_hash call makes
\* check_generated_content_hash true, and the check is true for as long as
\* no refresh_generated_content call follows: add_comment, add_blank,
\* add_path, remove_path, sort_gitignore and render leave generated_content,
\* generated_content_hash and parameters_hash as they were before the call
\* (last.pre), and a call before which the check was true and after which it
\* is false is a refresh_generated_content call.
C14_HashStaysValid ==
    /\ last.op = "refresh_generated_content_hash" => check_generated_content_hash(self)
    /\ last.op \in UserSectionOps => GeneratedFields(self) = GeneratedFields(last.pre)
    /\ hist.hashed => check_generated_content_hash(self)
    /\ (/\ last.op \notin {"init", "refresh_generated_content"}
        /\ check_generated_content_hash(last.pre))
          => check_generated_content_hash(self)

\* regenerated content was hashed, entries were added, and the document was
\* then sorted: the check is still true
C14_Witness ==
    /\ last.op = "sort_gitignore"
    /\ hist.hashed
    /\ hist.refreshed # None
    /\ hist.hashed_content = Some(generated_content)
    /\ last.pre.generated_content_hash = Some(hash_content(generated_content))
    /\ Len(last.pre.entries) = MaxEntries
    /\ entries # last.pre.entries
    /\ check_generated_content_hash(self)

(***************************************************************************)
(* Properties of parse, line by line                                       *)
(***************************************************************************)
\* the parser's state after the first k lines, read off the guard lines alone
RECURSIVE StateAfter(_, _)
StateAfter(lines, k) ==
    IF k = 0 THEN "USER"
    ELSE IF StateAfter(lines, k - 1) = "USER"
         THEN (IF GENERATED_GUARD_START_REGEX(lines[k]) THEN "GENERATED" ELSE "USER")
         ELSE (IF lines[k] = GENERATED_GUARD_END THEN "USER" ELSE "GENERATED")

\* the positions, among the first k lines, of the guard lines that changed the state
Transitions(lines, k) == {j \in 1..k : StateAfter(lines, j) # StateAfter(lines, j - 1)}

\* the positions of the lines read in USER state that are not start guards
UserLines(lines, k) ==
    {j \in 1..k : StateAfter(lines, j - 1) = "USER" /\ StateAfter(lines, j) = "USER"}

\* the positions of the lines read in GENERATED state that are not end guards
GeneratedLines(lines, k) ==
    {j \in 1..k : StateAfter(lines, j - 1) = "GENERATED" /\ StateAfter(lines, j) = "GENERATED"}

\* the items of seq at the positions of S, in order
RECURSIVE Pick(_, _)
Pick(seq, S) ==
    IF S = {} THEN <<>>
    ELSE Pick(seq, S \ {Max(S)}) \o <<seq[Max(S)]>>

\* the positions of the parameters-hash markers read in GENERATED state
MarkerLines(lines) ==
    {j \in GeneratedLines(lines, Len(lines)) : PARAMETER_HASH_REGEX(lines[j])}

\* C16: after a successful parse, parameters_hash is the hash token of the
\* last parameters-hash marker line read in GENERATED state, and unset when
\* there is none -- so a marker line read in USER state does not change it --
\* and every marker line read in GENERATED state is a line of
\* generated_content.
C16_ParametersHashParsed ==
    (last.op = "parse" /\ ~last.raised) =>
        LET lines == FileLines(last.text)
            markers == MarkerLines(lines)
        IN  /\ parameters_hash =
                  IF markers = {} THEN None
                  ELSE Some(ParameterHashGroup1(lines[Max(markers)]))
            /\ \A j \in markers : lines[j] \in LineSet(generated_content)

\* two markers with different tokens in one guarded section
C16_Witness ==
    /\ last.op = "parse"
    /\ ~last.raised
    /\ LET lines == FileLines(last.text)
           markers == MarkerLines(lines)
       IN  /\ Cardinality(markers) = 2
           /\ lines[Min(markers)] # lines[Max(markers)]
           /\ parameters_hash = Some("q")

\* C17: parse consumes every line exactly once.  After each number k of
\* lines read, and at the end, entries + accumulated lines + guard
\* transitions = k; the entries are what the lines read in USER state give,
\* the accumulated lines are the lines read in GENERATED state; and after a
\* successful parse generated_content is the newline-join of the lines of
\* all guarded blocks, in input order.
C17_EveryLineOnce ==
    last.op = "parse" =>
        LET lines == FileLines(last.text)
            n == Len(lines)
        IN  /\ \A k \in 0..n :
                  LET ps == ParseRun(lines, k)
                      user == Pick(lines, UserLines(lines, k))
                  IN  /\ Len(ps.gitignore.entries) + Len(ps.generated_content)
                            + Cardinality(Transitions(lines, k)) = k
                      /\ ps.gitignore.entries = [i \in 1..Len(user) |-> UserEntry(user[i])]
                      /\ ps.generated_content = Pick(lines, GeneratedLines(lines, k))
                      /\ ps.state = StateAfter(lines, k)
            /\ ~last.raised =>
                  /\ Len(entries) = Cardinality(UserLines(lines, n))
                  /\ generated_content = Join(Pick(lines, GeneratedLines(lines, n)), "\n")

\* a text with a guarded block that holds a line, and entries after it
C17_Witness ==
    /\ last.op = "parse"
    /\ ~last.raised
    /\ LET lines == FileLines(last.text)
       IN  /\ Len(lines) = MaxLines
           /\ Cardinality(Transitions(lines, Len(lines))) = 2
           /\ GeneratedLines(lines, Len(lines)) # {}
           /\ UserLines(lines, Len(lines)) # {}
    /\ generated_content # ""
    /\ entries # <<>>

(***************************************************************************)
(* Properties of a document rendered without a content hash                *)
(***************************************************************************)
\* the document was just parsed from the rendering of last.pre, whose
\* generated_content_hash was unset
ParsedRenderingOfUnhashed ==
    /\ last.op = "parse"
    /\ last.pre.generated_content_hash = None
    /\ last.text = render(last.pre)

\* C18: the rendering of a document d whose generated_content_hash is unset
\* has a start guard that parse recognises; parse(render(d)) has
\* generated_content_hash set to the placeholder token "None", has the
\* entries and the generated_content of d, and fails
\* check_generated_content_hash.
C18_UnsetHashRoundTrip ==
    ParsedRenderingOfUnhashed =>
        /\ ~last.raised
        /\ generated_content_hash = Some("None")
        /\ entries = last.pre.entries
        /\ generated_content = last.pre.generated_content
        /\ ~check_generated_content_hash(self)

\* The generated fields of that round trip, whatever the entries of d.
UnsetHashPlaceholder ==
    ParsedRenderingOfUnhashed =>
        /\ ~last.raised
        /\ generated_content_hash = Some("None")
        /\ generated_content = last.pre.generated_content
        /\ ~check_generated_content_hash(self)

\* The entries of that round trip, when d has entries.
UnsetHashRoundTripNonEmpty ==
    (ParsedRenderingOfUnhashed /\ last.pre.entries # <<>>) => entries = last.pre.entries

====
